---- MODULE Spec2Model ----
(***************************************************************************)
(* A model of xnmt's LossTracker / BatchLossTracker (xnmt/loss_tracker.py) *)
(* and of its Encoder family (xnmt/encoder.py).                            *)
(*                                                                         *)
(* Python objects are records, one field per attribute.  An attribute that *)
(* has not been assigned yet is not in the record's domain.  Floats        *)
(* that the code only prints are kept as exact fractions <<num, den>>.     *)
(* The wall clock time.time() is the variable now; it moves only by Tick,  *)
(* so two calls may read the same instant.  An exception that leaves a     *)
(* method is not caught by any code of the repository: it ends the run.    *)
(***************************************************************************)
EXTENDS Integers, Sequences, FiniteSets, TLC

VARIABLES
  registry,   \* xnmt.events: the handlers registered, in registration order
  trk,        \* the LossTracker objects, by position in the registry
  now,        \* time.time()
  ret,        \* the last call made: its name, receiver, result, exception, log lines
  fed,        \* history, per tracker: the sentences fed since its last fired train
              \* report or clear_counters (.report) and since its epoch started
              \* (.epoch), the times should_report_dev said yes in the epoch (.yes),
              \* the words and the loss fed since its epoch started (.words, .loss),
              \* the best of the dev scores reported in the whole run (.best)
  pc,         \* position of the training loop that drives a tracker (LoopSpec)
  enc,        \* the Encoder objects
  globals,    \* model_globals: the model-wide defaults
  eret,       \* the last call made on an encoder
  epochs,     \* history, per SegmentingEncoder: the new_epoch() calls made on it
  conf        \* the options each encoder was constructed from

vars == <<registry, trk, now, ret, fed, pc, enc, globals, eret, epochs, conf>>
trackerVars == <<registry, trk, now, ret, fed>>
encoderVars == <<enc, globals, eret, epochs, conf>>

(* ---------------------------------------------------------------- bounds *)
MaxClock == 2
MaxEpochs == 2
MaxIdle == 1500
MaxCtr == 5

(* ------------------------------------------------------- Python's values *)
None == [kind |-> "None"]
NoCall == [op |-> "", t |-> 0, args |-> << >>, val |-> "None", exc |-> "", line |-> 0, log |-> << >>]

Max2(a, b) == IF a >= b THEN a ELSE b
Min2(a, b) == IF a <= b THEN a ELSE b

(* ----------------------------------------------------------- xnmt.vocab  *)
ES == 1

(* ------------------------------------------------------------ xnmt.loss  *)
\* LossBuilder(): no component yet.
LossBuilder == << >>
LossNames == {"mle", "reinforce"}
\* LossBuilder.__iadd__: component-wise running sums.
LossAdd(a, b) ==
  [n \in (DOMAIN a) \cup (DOMAIN b) |->
     (IF n \in DOMAIN a THEN a[n] ELSE 0) + (IF n \in DOMAIN b THEN b[n] ELSE 0)]
RECURSIVE SumOver(_, _)
SumOver(f, names) ==
  IF names = {} THEN 0
  ELSE LET n == CHOOSE m \in names : TRUE IN f[n] + SumOver(f, names \ {n})
\* LossBuilder.sum(): the sum of all components.
LossSum(a) == SumOver(a, DOMAIN a)
\* len(LossBuilder): the number of components.
LossLen(a) == Cardinality(DOMAIN a)

(* -------------------------------------------------- BatchLossTracker     *)
\* The sum of f[lo..hi], halving the range (the loop's running sum).
RECURSIVE SumRange(_, _, _)
SumRange(f, lo, hi) ==
  IF lo > hi THEN 0
  ELSE IF lo = hi THEN f[lo]
  ELSE LET mid == (lo + hi) \div 2 IN SumRange(f, lo, mid) + SumRange(f, mid + 1, hi)

\* An element of trg_words is a token, [int |-> w], or a sentence, [list |-> <<w, ..>>].
\* type(x) == int
IsInt(x) == "int" \in DOMAIN x

\* A count that takes the padding for words.
count_one_with_padding(x) == IF IsInt(x) THEN 1 ELSE Len(x.list)

\* trg_cnt += 1 if x != Vocab.ES else 0, or the same over the tokens y of x
count_one(x) ==
  IF IsInt(x) THEN (IF x.int # ES THEN 1 ELSE 0)
  ELSE SumRange([j \in 1..Len(x.list) |-> IF x.list[j] # ES THEN 1 ELSE 0], 1, Len(x.list))

\* BatchLossTracker.count_trg_words
count_trg_words(trg_words) ==
  SumRange([i \in 1..Len(trg_words) |-> count_one(trg_words[i])], 1, Len(trg_words))

\* BatchLossTracker.count_sent_num
count_sent_num(obj) == Len(obj)

(* ------------------------------------------------------------- inputs    *)
\* The training batches: n source sentences, n target sentences padded with ES.
MakeBatch(n, sent) == [src |-> [i \in 1..n |-> <<5, 6>>], trg |-> [i \in 1..n |-> [list |-> sent]]]
\* A batch whose target side mixes sentences and bare tokens, four by four: a
\* sentence of two words, the token ES, a token, a sentence of one word.
MixedBatch(n) ==
  [src |-> [i \in 1..n |-> <<5, 6>>],
   trg |-> [i \in 1..n |->
              CASE i % 4 = 1 -> [list |-> <<7, 8, ES>>]
                [] i % 4 = 2 -> [int |-> ES]
                [] i % 4 = 3 -> [int |-> 7]
                [] OTHER -> [list |-> <<7, ES, ES>>]]]
BatchIds == {"b500", "b1500"}
BatchData ==
  [b \in BatchIds |->
     CASE b = "b500"  -> MixedBatch(500)
       [] b = "b1500" -> MakeBatch(1500, <<7, 8, ES>>)]
\* What update_epoch_loss counts on each batch.
BatchCounts ==
  [b \in BatchIds |->
     [sents |-> count_sent_num(BatchData[b].src),
      words |-> count_trg_words(BatchData[b].trg)]]
\* The loss of each batch, by named component.
BatchLoss ==
  [b \in BatchIds |->
     CASE b = "b500"  -> [mle |-> 2]
       [] b = "b1500" -> [mle |-> 3, reinforce |-> 1]]
Regimens == {"r1", "r2"}
NumSents == {500, 3000}
EvalEvery == {0, 1000}
ScoreKinds == {"higher", "lower"}
Scores == [kind : ScoreKinds, value : 1..2]
DevWords == {5}
AuxScores == {[kind |-> "higher", value |-> 1]}

(* ------------------------------------------------------------ the scores *)
\* Score.better_than(another_score): the score's own ordering; any score is
\* better than no score.
better_than(score, another_score) ==
  IF another_score = None THEN TRUE
  ELSE IF score.kind = "higher" THEN score.value > another_score.value
  ELSE score.value < another_score.value

(* ------------------------------------------------------------ LossTracker *)
\* What a method call leaves behind: the receiver, the value returned ("None"
\* when nothing is returned), the exception raised ("" when none) with the line
\* that raised it, and the lines it logged.
Returned(self, val, log) == [self |-> self, val |-> val, exc |-> "", line |-> 0, log |-> log]
Raised(self, exc, line, log) == [self |-> self, val |-> "None", exc |-> exc, line |-> line, log |-> log]
PyBool(b) == IF b THEN "True" ELSE "False"

\* hasattr(self, name) and setattr(self, name, value)
HasAttr(self, name) == name \in DOMAIN self
SetAttr(self, name, value) ==
  [a \in (DOMAIN self) \cup {name} |-> IF a = name THEN value ELSE self[a]]

\* LossTracker.__init__
LossTrackerInit(training_regimen, eval_every, name, time) ==
  [training_regimen |-> training_regimen,
   eval_train_every |-> 1000,
   eval_dev_every |-> eval_every,
   epoch_num |-> 0,
   epoch_loss |-> LossBuilder,
   epoch_words |-> 0,
   sent_num |-> 0,
   sent_num_not_report_train |-> 0,
   sent_num_not_report_dev |-> 0,
   fractional_epoch |-> <<0, 1>>,
   dev_score |-> None,
   best_dev_score |-> None,
   dev_words |-> 0,
   last_report_words |-> 0,
   start_time |-> time,
   last_report_train_time |-> time,
   dev_start_time |-> time,
   name |-> name]

\* on_new_epoch that does not look at the regimen.
on_new_epoch_any_regimen(self, training_regimen, num_sents, time) ==
  [SetAttr(self, "total_train_sent", num_sents) EXCEPT
                    !.epoch_loss = LossBuilder,
                    !.epoch_words = 0,
                    !.epoch_num = @ + 1,
                    !.sent_num = 0,
                    !.sent_num_not_report_train = 0,
                    !.sent_num_not_report_dev = 0,
                    !.last_report_words = 0,
                    !.last_report_train_time = time]

\* on_new_epoch that forgets the dev counter.
on_new_epoch_keeps_dev_counter(self, training_regimen, num_sents, time) ==
  IF training_regimen = self.training_regimen
  THEN [SetAttr(self, "total_train_sent", num_sents) EXCEPT
                    !.epoch_loss = LossBuilder,
                    !.epoch_words = 0,
                    !.epoch_num = @ + 1,
                    !.sent_num = 0,
                    !.sent_num_not_report_train = 0,
                    !.last_report_words = 0,
                    !.last_report_train_time = time]
  ELSE self

\* A handler that starts every epoch without a best dev score.
on_new_epoch_forgets_best(self, training_regimen, num_sents, time) ==
  IF training_regimen = self.training_regimen
  THEN [SetAttr(self, "total_train_sent", num_sents) EXCEPT
                    !.epoch_loss = LossBuilder,
                    !.epoch_words = 0,
                    !.epoch_num = @ + 1,
                    !.sent_num = 0,
                    !.sent_num_not_report_train = 0,
                    !.sent_num_not_report_dev = 0,
                    !.last_report_words = 0,
                    !.last_report_train_time = time,
                    !.best_dev_score = None]
  ELSE self

\* LossTracker.on_new_epoch, the handler of the on_new_epoch event.
on_new_epoch_handler(self, training_regimen, num_sents, time) ==
  IF training_regimen = self.training_regimen
  THEN [SetAttr(self, "total_train_sent", num_sents) EXCEPT
                    !.epoch_loss = LossBuilder,
                    !.epoch_words = 0,
                    !.epoch_num = @ + 1,
                    !.sent_num = 0,
                    !.sent_num_not_report_train = 0,
                    !.sent_num_not_report_dev = 0,
                    !.last_report_words = 0,
                    !.last_report_train_time = time]
  ELSE self

\* LossTracker.update_epoch_loss, on a batch whose counts are in BatchCounts.
update_epoch_loss_on(self, b, loss) ==
  LET batch_sent_num == BatchCounts[b].sents IN
  [self EXCEPT !.sent_num = @ + batch_sent_num,
               !.sent_num_not_report_train = @ + batch_sent_num,
               !.sent_num_not_report_dev = @ + batch_sent_num,
               !.epoch_words = @ + BatchCounts[b].words,
               !.epoch_loss = LossAdd(@, loss)]

\* LossTracker.format_time: days and the time of day.
format_time(seconds) == <<seconds \div 86400, seconds % 86400>>

\* LossTracker.print_log: the line with the tracker's name before it, if it has one.
print_log(self, line) == IF self.name # "" THEN [line EXCEPT !.prefix = self.name] ELSE line

\* (epoch_num - 1) + sent_num / total_train_sent, as a fraction
FractionalEpoch(self) ==
  <<(self.epoch_num - 1) * self.total_train_sent + self.sent_num, self.total_train_sent>>

\* The report's test with > for >=.
print_report_test_strict(self) ==
  IF self.sent_num_not_report_train > self.eval_train_every THEN "True"
  ELSE IF ~HasAttr(self, "total_train_sent") THEN "AttributeError"
  ELSE PyBool(self.sent_num = self.total_train_sent)

\* The report's test: sent_num_not_report_train >= eval_train_every or
\* sent_num == total_train_sent (read only when the first test fails).
print_report_test(self) ==
  IF self.sent_num_not_report_train >= self.eval_train_every THEN "True"
  ELSE IF ~HasAttr(self, "total_train_sent") THEN "AttributeError"
  ELSE PyBool(self.sent_num = self.total_train_sent)

\* A per-word loss over the words since the last report.
loss_per_word_since_report(self) ==
  <<LossSum(self.epoch_loss), self.epoch_words - self.last_report_words>>

\* self.epoch_loss.sum() / self.epoch_words
loss_per_word(self) == <<LossSum(self.epoch_loss), self.epoch_words>>

\* A report that takes one period off the counter.
train_counter_less_one_period(self) == self.sent_num_not_report_train - self.eval_train_every

\* The counter a fired report leaves.
train_counter_after_report(self) == self.sent_num_not_report_train % self.eval_train_every

\* One line per named loss component, when there is more than one.
RECURSIVE ComponentLines(_, _)
ComponentLines(self, names) ==
  IF names = {} THEN << >>
  ELSE LET n == CHOOSE m \in names : \A k \in names : m = "mle" \/ k # "mle" IN
       <<print_log(self, [prefix |-> "", kind |-> "component", loss_name |-> n,
                          value |-> <<self.epoch_loss[n], self.epoch_words>>])>>
       \o ComponentLines(self, names \ {n})

\* LossTracker.report_train_process
report_train_process_call(self, time) ==
  IF print_report_test(self) = "AttributeError" THEN Raised(self, "AttributeError", 88, << >>)
  ELSE IF print_report_test(self) = "False" THEN Returned(self, "None", << >>)
  ELSE
    LET s1 == [self EXCEPT !.sent_num_not_report_train = train_counter_after_report(self)] IN
    IF ~HasAttr(s1, "total_train_sent") THEN Raised(s1, "AttributeError", 92, << >>)
    ELSE IF s1.total_train_sent = 0 THEN Raised(s1, "ZeroDivisionError", 92, << >>)
    ELSE
      LET s2 == [s1 EXCEPT !.fractional_epoch = FractionalEpoch(s1)]
          this_report_time == time
      IN
      IF s2.epoch_words = 0 THEN Raised(s2, "ZeroDivisionError", 95, << >>)
      ELSE IF this_report_time - s2.last_report_train_time = 0
      THEN Raised(s2, "ZeroDivisionError", 97, << >>)
      ELSE
        LET main == print_log(s2,
                      [prefix |-> "", kind |-> "train",
                       epoch |-> s2.fractional_epoch,
                       loss_per_word |-> loss_per_word(s2),
                       words |-> s2.epoch_words,
                       words_per_sec |-> <<s2.epoch_words - s2.last_report_words,
                                           this_report_time - s2.last_report_train_time>>,
                       time |-> format_time(time - s2.start_time)])
            more == IF LossLen(s2.epoch_loss) > 1
                    THEN ComponentLines(s2, DOMAIN s2.epoch_loss) ELSE << >>
            s3 == [s2 EXCEPT !.last_report_words = s2.epoch_words,
                             !.last_report_train_time = this_report_time]
        IN Returned(s3, "True", <<main>> \o more)

\* LossTracker.new_dev
new_dev_call(self, time) == [self EXCEPT !.dev_start_time = time]

\* LossTracker.set_dev_score
set_dev_score_call(self, dev_words, dev_score) ==
  [self EXCEPT !.dev_score = dev_score, !.dev_words = dev_words]

\* should_report_dev with > for >= when eval_dev_every is 0.
should_report_dev_strict(self) ==
  IF self.eval_dev_every > 0
  THEN IF self.sent_num_not_report_dev >= self.eval_dev_every THEN Returned(self, "True", << >>)
       ELSE IF ~HasAttr(self, "total_train_sent") THEN Raised(self, "AttributeError", 124, << >>)
       ELSE Returned(self, PyBool(self.sent_num = self.total_train_sent), << >>)
  ELSE IF ~HasAttr(self, "total_train_sent") THEN Raised(self, "AttributeError", 126, << >>)
       ELSE Returned(self, PyBool(self.sent_num_not_report_dev > self.total_train_sent), << >>)

\* LossTracker.should_report_dev
should_report_dev_call(self) ==
  IF self.eval_dev_every > 0
  THEN IF self.sent_num_not_report_dev >= self.eval_dev_every THEN Returned(self, "True", << >>)
       ELSE IF ~HasAttr(self, "total_train_sent") THEN Raised(self, "AttributeError", 124, << >>)
       ELSE Returned(self, PyBool(self.sent_num = self.total_train_sent), << >>)
  ELSE IF ~HasAttr(self, "total_train_sent") THEN Raised(self, "AttributeError", 126, << >>)
       ELSE Returned(self, PyBool(self.sent_num_not_report_dev >= self.total_train_sent), << >>)

\* A dev report that takes one period off the counter.
dev_counter_less_one_period(self, sent_num) == self.sent_num_not_report_dev - sent_num

\* self.sent_num_not_report_dev % sent_num
dev_counter_after_report(self, sent_num) == self.sent_num_not_report_dev % sent_num

\* The stored best score after a dev report that found save_model.
best_after_report(self, save_model) == IF save_model THEN self.dev_score ELSE self.best_dev_score

\* LossTracker.report_dev_and_check_model
report_dev_and_check_model_call(self, model_file, time) ==
  LET this_report_time == time IN
  IF self.eval_dev_every = 0 /\ ~HasAttr(self, "total_train_sent")
  THEN Raised(self, "AttributeError", 134, << >>)
  ELSE
    LET sent_num == IF self.eval_dev_every # 0 THEN self.eval_dev_every
                    ELSE self.total_train_sent
    IN
    IF sent_num = 0 THEN Raised(self, "ZeroDivisionError", 135, << >>)
    ELSE
      LET s1 == [self EXCEPT !.sent_num_not_report_dev = dev_counter_after_report(self, sent_num)] IN
      IF ~HasAttr(s1, "total_train_sent") THEN Raised(s1, "AttributeError", 136, << >>)
      ELSE IF s1.total_train_sent = 0 THEN Raised(s1, "ZeroDivisionError", 136, << >>)
      ELSE
        LET s2 == [s1 EXCEPT !.fractional_epoch = FractionalEpoch(s1)] IN
        IF this_report_time - s2.dev_start_time = 0
        THEN Raised(s2, "ZeroDivisionError", 141, << >>)
        ELSE
          LET dev == print_log(s2,
                       [prefix |-> "", kind |-> "dev",
                        epoch |-> s2.fractional_epoch,
                        score |-> s2.dev_score,
                        words |-> s2.dev_words,
                        words_per_sec |-> <<s2.dev_words, this_report_time - s2.dev_start_time>>,
                        time |-> format_time(this_report_time - s2.start_time)])
          IN
          IF s2.dev_score = None THEN Raised(s2, "AttributeError", 144, <<dev>>)
          ELSE
            LET save_model == better_than(s2.dev_score, s2.best_dev_score)
                s3 == [s2 EXCEPT !.best_dev_score = best_after_report(s2, save_model)]
                best == print_log(s2, [prefix |-> "", kind |-> "best",
                                       epoch |-> s2.fractional_epoch,
                                       model_file |-> model_file])
            IN Returned(s3, PyBool(save_model),
                        IF save_model THEN <<dev, best>> ELSE <<dev>>)

\* LossTracker.report_auxiliary_score
report_auxiliary_score_call(self, score) ==
  Returned(self, "None",
           <<print_log(self, [prefix |-> "", kind |-> "aux",
                              epoch |-> self.fractional_epoch, score |-> score])>>)

\* A clear_counters that starts the epoch count over as well.
clear_counters_and_epochs(self) ==
  [self EXCEPT !.sent_num = 0, !.sent_num_not_report_dev = 0,
               !.sent_num_not_report_train = 0, !.epoch_num = 0]

\* A clear_counters that forgets the train counter.
clear_counters_keeps_train_counter(self) ==
  [self EXCEPT !.sent_num = 0, !.sent_num_not_report_dev = 0]

\* LossTracker.clear_counters
clear_counters_call(self) ==
  [self EXCEPT !.sent_num = 0,
               !.sent_num_not_report_dev = 0,
               !.sent_num_not_report_train = 0]


(* ------------------------------------------------------- xnmt.events      *)
\* The on_new_epoch event: every registered handler is invoked, in the order given.
RECURSIVE FireOnNewEpoch(_, _, _, _, _)
FireOnNewEpoch(order, trackers, training_regimen, num_sents, time) ==
  IF order = << >> THEN trackers
  ELSE LET t == Head(order) IN
       FireOnNewEpoch(Tail(order),
                      [trackers EXCEPT ![t] = on_new_epoch_handler(@, training_regimen, num_sents, time)],
                      training_regimen, num_sents, time)

(* ------------------------------------------------------------- the steps *)
NothingFed == [report |-> 0, epoch |-> 0, yes |-> 0, words |-> 0, loss |-> 0, best |-> None]

\* The better of the best score reported so far and one more reported score.
BestReported(best, score) ==
  IF best = None THEN score
  ELSE IF score.kind = "higher" /\ score.value > best.value THEN score
  ELSE IF score.kind = "lower" /\ score.value < best.value THEN score
  ELSE best

\* No exception has ended the run.
Running == ret.exc = ""

Trackers == DOMAIN trk

\* A method call on tracker t that ended as r.
Call(op, t, args, r) ==
  /\ trk' = [trk EXCEPT ![t] = r.self]
  /\ ret' = [op |-> op, t |-> t, args |-> args, val |-> r.val, exc |-> r.exc,
             line |-> r.line, log |-> r.log]

\* The clock moves.
Tick ==
  /\ Running
  /\ now < MaxClock
  /\ now' = now + 1
  /\ UNCHANGED <<registry, trk, ret, fed>>

\* A training regimen starts an epoch over its num_sents sentences.
on_new_epoch(training_regimen, num_sents) ==
  /\ Running
  /\ \A t \in Trackers :
       trk[t].training_regimen = training_regimen => trk[t].epoch_num < MaxEpochs
  /\ trk' = FireOnNewEpoch(registry, trk, training_regimen, num_sents, now)
  /\ ret' = [NoCall EXCEPT !.op = "on_new_epoch", !.args = <<training_regimen, num_sents>>]
  /\ fed' = [t \in Trackers |->
               IF trk[t].training_regimen = training_regimen
               THEN [NothingFed EXCEPT !.best = fed[t].best] ELSE fed[t]]
  /\ UNCHANGED <<registry, now>>

\* The batches of an epoch are parts of its num_sents sentences; a tracker that
\* has seen no epoch yet is fed at most MaxIdle sentences.
FitsEpoch(t, b) ==
  fed[t].epoch + BatchCounts[b].sents <=
    (IF HasAttr(trk[t], "total_train_sent") THEN trk[t].total_train_sent ELSE MaxIdle)

update_epoch_loss(t, b, loss) ==
  /\ Running
  /\ FitsEpoch(t, b)
  /\ Call("update_epoch_loss", t, <<b>>, Returned(update_epoch_loss_on(trk[t], b, loss), "None", << >>))
  /\ fed' = [fed EXCEPT ![t].report = @ + BatchCounts[b].sents,
                         ![t].epoch = @ + BatchCounts[b].sents,
                         ![t].words = @ + BatchCounts[b].words,
                         ![t].loss = @ + LossSum(loss)]
  /\ UNCHANGED <<registry, now>>

report_train_process(t) ==
  /\ Running
  /\ LET r == report_train_process_call(trk[t], now) IN
       /\ Call("report_train_process", t, << >>, r)
       /\ fed' = [fed EXCEPT ![t].report = IF r.val = "True" THEN 0 ELSE @]
  /\ UNCHANGED <<registry, now>>

new_dev(t) ==
  /\ Running
  /\ Call("new_dev", t, << >>, Returned(new_dev_call(trk[t], now), "None", << >>))
  /\ UNCHANGED <<registry, now, fed>>

\* Every dev score of a run comes from the same evaluator.
SameEvaluator(self, dev_score) == self.dev_score = None \/ self.dev_score.kind = dev_score.kind

set_dev_score(t, dev_words, dev_score) ==
  /\ Running
  /\ SameEvaluator(trk[t], dev_score)
  /\ Call("set_dev_score", t, <<dev_words, dev_score>>,
          Returned(set_dev_score_call(trk[t], dev_words, dev_score), "None", << >>))
  /\ UNCHANGED <<registry, now, fed>>

should_report_dev(t) ==
  /\ Running
  /\ LET r == should_report_dev_call(trk[t]) IN
       /\ Call("should_report_dev", t, << >>, r)
       /\ fed' = [fed EXCEPT ![t].yes = IF r.val = "True" THEN Min2(@ + 1, 2) ELSE @]
  /\ UNCHANGED <<registry, now>>

report_dev_and_check_model(t, model_file) ==
  /\ Running
  /\ LET r == report_dev_and_check_model_call(trk[t], model_file, now) IN
       /\ Call("report_dev_and_check_model", t, <<model_file>>, r)
       /\ fed' = [fed EXCEPT ![t].best =
                                IF r.exc = "" THEN BestReported(@, trk[t].dev_score) ELSE @]
  /\ UNCHANGED <<registry, now>>

report_auxiliary_score(t, score) ==
  /\ Running
  /\ Call("report_auxiliary_score", t, <<score>>, report_auxiliary_score_call(trk[t], score))
  /\ UNCHANGED <<registry, now, fed>>

clear_counters(t) ==
  /\ Running
  /\ Call("clear_counters", t, << >>, Returned(clear_counters_call(trk[t]), "None", << >>))
  /\ fed' = [fed EXCEPT ![t].report = 0]
  /\ UNCHANGED <<registry, now>>

\* The tracker has handled an on_new_epoch of its regimen.
InEpoch(self) == HasAttr(self, "total_train_sent")

(* ------------------------------------------- one tracker, called freely  *)
\* The training side and the dev side of a tracker share sent_num, epoch_num,
\* total_train_sent and start_time, which only on_new_epoch, update_epoch_loss
\* and clear_counters write, and fractional_epoch, which each report writes
\* before it reads it.  Spec calls the training side in every order, DevSpec
\* the dev side.
NoEncoders ==
  /\ enc = << >>
  /\ globals = << >>
  /\ eret = NoCall
  /\ epochs = << >>
  /\ conf = << >>

Init ==
  /\ \E eval_every \in EvalEvery : trk = <<LossTrackerInit("r1", eval_every, "", 0)>>
  /\ registry = <<1>>
  /\ now = 0
  /\ ret = NoCall
  /\ fed = <<NothingFed>>
  /\ pc = "free"
  /\ NoEncoders

Next ==
  \/ Tick /\ UNCHANGED <<pc, encoderVars>>
  \/ \E r \in Regimens, n \in NumSents : on_new_epoch(r, n) /\ UNCHANGED <<pc, encoderVars>>
  \/ \E t \in Trackers, b \in BatchIds :
       update_epoch_loss(t, b, BatchLoss[b]) /\ UNCHANGED <<pc, encoderVars>>
  \/ \E t \in Trackers : report_train_process(t) /\ UNCHANGED <<pc, encoderVars>>
  \/ \E t \in Trackers : clear_counters(t) /\ UNCHANGED <<pc, encoderVars>>

Spec == Init /\ [][Next]_vars

DevNext ==
  \/ Tick /\ UNCHANGED <<pc, encoderVars>>
  \/ \E r \in Regimens, n \in NumSents : on_new_epoch(r, n) /\ UNCHANGED <<pc, encoderVars>>
  \/ \E t \in Trackers, b \in BatchIds :
       update_epoch_loss(t, b, BatchLoss[b]) /\ UNCHANGED <<pc, encoderVars>>
  \/ \E t \in Trackers : new_dev(t) /\ UNCHANGED <<pc, encoderVars>>
  \/ \E t \in Trackers, w \in DevWords, s \in Scores :
       set_dev_score(t, w, s) /\ UNCHANGED <<pc, encoderVars>>
  \/ \E t \in Trackers : should_report_dev(t) /\ UNCHANGED <<pc, encoderVars>>
  \/ \E t \in Trackers : report_dev_and_check_model(t, "model.out") /\ UNCHANGED <<pc, encoderVars>>
  \/ \E t \in Trackers, s \in AuxScores :
       report_auxiliary_score(t, s) /\ UNCHANGED <<pc, encoderVars>>

DevSpec == Init /\ [][DevNext]_vars

(* --------------------------------------- one tracker, driven by a loop   *)
\* A training loop over one regimen: each epoch is fed batch by batch, after each
\* batch the loop asks should_report_dev() and, on yes, evaluates on the dev set
\* (new_dev, set_dev_score) and calls report_dev_and_check_model.
LoopInit ==
  /\ \E eval_every \in EvalEvery : trk = <<LossTrackerInit("r1", eval_every, "", 0)>>
  /\ registry = <<1>>
  /\ now = 0
  /\ ret = NoCall
  /\ fed = <<NothingFed>>
  /\ pc = "epoch"
  /\ NoEncoders

EpochIsFed == fed[1].epoch = trk[1].total_train_sent

LoopNewEpoch ==
  /\ pc = "epoch"
  /\ \E n \in NumSents : on_new_epoch("r1", n)
  /\ pc' = "feed"

LoopFeed ==
  /\ pc = "feed"
  /\ \E b \in BatchIds : update_epoch_loss(1, b, BatchLoss[b])
  /\ pc' = "ask"

LoopAsk ==
  /\ pc = "ask"
  /\ should_report_dev(1)
  /\ pc' = IF ret'.val = "True" THEN "dev" ELSE IF EpochIsFed THEN "epoch" ELSE "feed"

LoopNewDev ==
  /\ pc = "dev"
  /\ new_dev(1)
  /\ pc' = "score"

LoopSetDevScore ==
  /\ pc = "score"
  /\ \E w \in DevWords, s \in Scores : set_dev_score(1, w, s)
  /\ pc' = "report"

LoopReportDev ==
  /\ pc = "report"
  /\ report_dev_and_check_model(1, "model.out")
  /\ pc' = IF EpochIsFed THEN "epoch" ELSE "feed"

LoopNext ==
  \/ Tick /\ UNCHANGED <<pc, encoderVars>>
  \/ LoopNewEpoch /\ UNCHANGED encoderVars
  \/ LoopFeed /\ UNCHANGED encoderVars
  \/ LoopAsk /\ UNCHANGED encoderVars
  \/ LoopNewDev /\ UNCHANGED encoderVars
  \/ LoopSetDevScore /\ UNCHANGED encoderVars
  \/ LoopReportDev /\ UNCHANGED encoderVars

LoopSpec == LoopInit /\ [][LoopNext]_vars

(* ------------------------------------ several trackers on the event bus  *)
\* The regimens that own the registered trackers, in registration order; "r3" is
\* a regimen that owns none.
OwnerLists == {<<"r1", "r2">>, <<"r2", "r1", "r2">>}
BusRegimens == Regimens \cup {"r3"}
BusNumSents == {500, 1000}
BusBatchIds == {"b500"}

BusInit ==
  /\ \E owners \in OwnerLists :
       /\ trk = [i \in 1..Len(owners) |->
                   LossTrackerInit(owners[i], 1000, IF i = 1 THEN "" ELSE "aux", 0)]
       /\ registry = [i \in 1..Len(owners) |-> i]
       /\ fed = [i \in 1..Len(owners) |-> NothingFed]
  /\ now = 0
  /\ ret = NoCall
  /\ pc = "free"
  /\ NoEncoders

BusNext ==
  \/ Tick /\ UNCHANGED <<pc, encoderVars>>
  \/ \E r \in BusRegimens, n \in BusNumSents : on_new_epoch(r, n) /\ UNCHANGED <<pc, encoderVars>>
  \/ \E t \in Trackers, b \in BusBatchIds :
       InEpoch(trk[t]) /\ update_epoch_loss(t, b, BatchLoss[b]) /\ UNCHANGED <<pc, encoderVars>>

BusSpec == BusInit /\ [][BusNext]_vars

\* Every order in which the registered handlers can be invoked.
HandlerOrders ==
  {order \in [1..Len(registry) -> Trackers] :
     \A i, j \in 1..Len(registry) : order[i] = order[j] => i = j}

(* ------------------------------------------- a whole run of one tracker  *)
\* Every operation of the tracker, in any order, on batches of 500 sentences and
\* epochs of 500 or 1000.
RunNext ==
  \/ Tick /\ UNCHANGED <<pc, encoderVars>>
  \/ \E r \in Regimens, n \in BusNumSents : on_new_epoch(r, n) /\ UNCHANGED <<pc, encoderVars>>
  \/ \E t \in Trackers, b \in BusBatchIds :
       update_epoch_loss(t, b, BatchLoss[b]) /\ UNCHANGED <<pc, encoderVars>>
  \/ \E t \in Trackers : report_train_process(t) /\ UNCHANGED <<pc, encoderVars>>
  \/ \E t \in Trackers : new_dev(t) /\ UNCHANGED <<pc, encoderVars>>
  \/ \E t \in Trackers, w \in DevWords, s \in Scores :
       set_dev_score(t, w, s) /\ UNCHANGED <<pc, encoderVars>>
  \/ \E t \in Trackers : should_report_dev(t) /\ UNCHANGED <<pc, encoderVars>>
  \/ \E t \in Trackers : report_dev_and_check_model(t, "model.out") /\ UNCHANGED <<pc, encoderVars>>
  \/ \E t \in Trackers : clear_counters(t) /\ UNCHANGED <<pc, encoderVars>>

RunSpec == Init /\ [][RunNext]_vars

(* --------------------------------------------------------------- Encoder *)
\* An encoder object is a record with its class in .kind and one field per
\* attribute; a reference to another encoder is its index in enc.  Dropout rates
\* are in tenths, the lambda of a SegmentingEncoder in units of 1e-3.
BuilderKinds == {"LSTMEncoder", "ResidualLSTMEncoder", "PyramidalLSTMEncoder", "ConvBiRNNBuilder"}

\* x or model_globals.get(key): a value that is None or zero gives way to the default.
OrDefault(x, key, defaults) == IF x = None \/ x = [v |-> 0] THEN defaults[key] ELSE x.v

\* An option as the configuration gives it: None, or the value v.
Opt(v) == [v |-> v]

\* The builder an encoder makes for itself; dynet builders start without dropout.
NewBuilder(kind, layers, input_dim, hidden_dim) ==
  [kind |-> kind, layers |-> layers, input_dim |-> input_dim, hidden_dim |-> hidden_dim,
   dropout |-> 0]

\* LSTMEncoder.__init__
LSTMEncoderInit(input_dim, layers, hidden_dim, dropout, bidirectional, defaults) ==
  LET i == OrDefault(input_dim, "default_layer_dim", defaults)
      h == OrDefault(hidden_dim, "default_layer_dim", defaults)
      d == OrDefault(dropout, "dropout", defaults)
  IN [kind |-> "LSTMEncoder", input_dim |-> i, layers |-> layers, hidden_dim |-> h,
      dropout |-> d,
      builder |-> NewBuilder(IF bidirectional THEN "BiRNNBuilder" ELSE "VanillaLSTMBuilder",
                             layers, i, h)]

\* ResidualLSTMEncoder.__init__ (input_dim has its own default, 512)
ResidualLSTMEncoderInit(input_dim, layers, hidden_dim, residual_to_output, dropout, bidirectional, defaults) ==
  LET h == OrDefault(hidden_dim, "default_layer_dim", defaults)
      d == OrDefault(dropout, "dropout", defaults)
  IN [kind |-> "ResidualLSTMEncoder", dropout |-> d,
      builder |-> NewBuilder(IF bidirectional THEN "ResidualBiRNNBuilder" ELSE "ResidualRNNBuilder",
                             layers, input_dim, h)
                  @@ [residual_to_output |-> residual_to_output]]

\* PyramidalLSTMEncoder.__init__
PyramidalLSTMEncoderInit(input_dim, layers, hidden_dim, downsampling_method, reduce_factor, dropout, defaults) ==
  LET h == OrDefault(hidden_dim, "default_layer_dim", defaults)
      d == OrDefault(dropout, "dropout", defaults)
  IN [kind |-> "PyramidalLSTMEncoder", dropout |-> d,
      builder |-> NewBuilder("PyramidalRNNBuilder", layers, input_dim, h)
                  @@ [downsampling_method |-> downsampling_method,
                      reduce_factor |-> reduce_factor]]

\* ConvBiRNNBuilder.init_builder, which is what sets up this encoder
ConvBiRNNBuilderInit(input_dim, layers, hidden_dim, dropout, defaults) ==
  LET h == OrDefault(hidden_dim, "default_layer_dim", defaults)
      d == OrDefault(dropout, "dropout", defaults)
  IN [kind |-> "ConvBiRNNBuilder", dropout |-> d,
      builder |-> NewBuilder("ConvBiRNNBuilder", layers, input_dim, h)]

\* ModularEncoder.__init__
ModularEncoderInit(input_dim, modules) == [kind |-> "ModularEncoder", modules |-> modules]

\* SegmentingEncoder.__init__
SegmentingEncoderInit(embed_encoder, segment_transducer, lmbd) ==
  [kind |-> "SegmentingEncoder", ctr |-> 0, lmbd_val |-> lmbd.start, lmbd |-> lmbd,
   builder |-> [kind |-> "SegmentingEncoderBuilder", embed_encoder |-> embed_encoder,
                segment_transducer |-> segment_transducer, train |-> "unset"]]

\* What a call on an encoder leaves behind: the encoders, the value returned and
\* the exception raised ("" when none).
EReturned(encs, val) == [encs |-> encs, val |-> val, exc |-> ""]
ERaised(encs, exc, class) == [encs |-> encs, val |-> class, exc |-> exc]

\* An unimplemented operation that does nothing.
Unimplemented_pass(encs, self, method) == EReturned(encs, None)

\* raise NotImplementedError('Unimplemented <method> for class:', self.__class__.__name__)
Unimplemented(encs, self, method) ==
  ERaised(encs, "NotImplementedError", <<"Unimplemented " \o method \o " for class:", self.kind>>)

\* A set_train that leaves dropout on.
dropout_kept(self, val) == self.dropout

\* self.dropout if val else 0.0
dropout_for(self, val) == IF val THEN self.dropout ELSE 0

\* set_train of each class; ModularEncoder passes it on to its modules, in order.
RECURSIVE set_train_call(_, _, _)
RECURSIVE set_train_modules(_, _, _)
set_train_modules(encs, modules, val) ==
  IF modules = << >> THEN EReturned(encs, None)
  ELSE LET r == set_train_call(encs, Head(modules), val) IN
       IF r.exc # "" THEN r ELSE set_train_modules(r.encs, Tail(modules), val)

set_train_call(encs, e, val) ==
  LET self == encs[e] IN
  CASE self.kind \in BuilderKinds ->
         EReturned([encs EXCEPT ![e].builder.dropout = dropout_for(self, val)], None)
    [] self.kind = "IdentityEncoder" -> EReturned(encs, None)
    [] self.kind = "ModularEncoder" -> set_train_modules(encs, self.modules, val)
    [] self.kind = "SegmentingEncoder" ->
         EReturned([encs EXCEPT ![e].builder.train = PyBool(val)], None)
    [] OTHER -> Unimplemented(encs, self, "set_train")

\* A value handed to or returned by transduce is the chain of operations applied
\* so far, the input sentence first.  ExpressionSequence(expr_list=..) and
\* ExpressionSequence(expr_tensor=..) wrap it, a builder's transduce extends it.
ExprList(x) == Append(x, [f |-> "expr_list", by |-> 0])
ExprTensor(x) == Append(x, [f |-> "expr_tensor", by |-> 0])
BuilderTransduce(e, sent) == Append(sent, [f |-> "builder.transduce", by |-> e])

\* One transduce call as it happened: receiver, argument, value returned and the
\* transduce calls it made itself, in order.
Transduced(e, sent, r, sub) ==
  r @@ [calls |-> <<[t |-> e, sent |-> sent, val |-> r.val, exc |-> r.exc, sub |-> sub]>>]

\* transduce of each class.
RECURSIVE transduce_call(_, _, _)
RECURSIVE transduce_modules_same_input(_, _, _)
RECURSIVE transduce_modules(_, _, _)

\* A loop that hands every module the loop's own input.
transduce_modules_same_input(encs, modules, sent) ==
  IF modules = << >> THEN EReturned(encs, sent) @@ [calls |-> << >>]
  ELSE LET r == transduce_call(encs, Head(modules), sent) IN
       IF r.exc # "" \/ Tail(modules) = << >> THEN r
       ELSE LET rest == transduce_modules_same_input(encs, Tail(modules), sent) IN
            [rest EXCEPT !.calls = r.calls \o @]

\* for module in self.modules: sent = module.transduce(sent); return sent
transduce_modules(encs, modules, sent) ==
  IF modules = << >> THEN EReturned(encs, sent) @@ [calls |-> << >>]
  ELSE LET r == transduce_call(encs, Head(modules), sent) IN
       IF r.exc # "" THEN r
       ELSE LET rest == transduce_modules(encs, Tail(modules), r.val) IN
            [rest EXCEPT !.calls = r.calls \o @]

transduce_call(encs, e, sent) ==
  LET self == encs[e] IN
  CASE self.kind \in BuilderKinds ->
         Transduced(e, sent, EReturned(encs, ExprList(BuilderTransduce(e, sent))), << >>)
    [] self.kind = "IdentityEncoder" ->
         Transduced(e, sent, EReturned(encs, ExprList(sent)), << >>)
    [] self.kind = "ModularEncoder" ->
         LET r == transduce_modules(encs, self.modules, sent) IN
         Transduced(e, sent, [encs |-> r.encs, val |-> r.val, exc |-> r.exc], r.calls)
    [] self.kind = "SegmentingEncoder" ->
         Transduced(e, sent, EReturned(encs, ExprTensor(BuilderTransduce(e, sent))), << >>)
    [] self.kind = "BuilderEncoder" ->
         Transduced(e, sent, ERaised(encs, "AttributeError", self.kind), << >>)
    [] OTHER -> Transduced(e, sent, Unimplemented(encs, self, "transduce"), << >>)

\* calc_reinforce_loss: None, but for the SegmentingEncoder, whose builder gets
\* the reward and the current lambda.
calc_reinforce_loss_call(encs, e, reward) ==
  IF encs[e].kind = "SegmentingEncoder"
  THEN EReturned(encs, [reward |-> reward, lmbd |-> encs[e].lmbd_val])
  ELSE EReturned(encs, None)

\* The schedule read before the counter is advanced.
lambda_schedule_late(ctr) == 2 ^ (ctr - 1) - 10

\* 1e-3 * ((2 ** self.ctr) - 10), in units of 1e-3
lambda_schedule(ctr) == 2 ^ ctr - 10

\* A clamp that forgets the lower bound.
clamp_lmbd_upper_only(v, lmbd) == Min2(v, lmbd.max)

\* min(self.lmbd_val, self.lmbd["max"]), then max(self.lmbd_val, self.lmbd["min"])
clamp_lmbd(v, lmbd) == Max2(Min2(v, lmbd.max), lmbd.min)

\* SegmentingEncoder.new_epoch
new_epoch_call(self) ==
  LET ctr == self.ctr + 1 IN
  [self EXCEPT !.ctr = ctr, !.lmbd_val = clamp_lmbd(lambda_schedule(ctr), self.lmbd)]

(* ------------------------------------------------------ the encoders' steps *)
ERunning == eret.exc = ""

Encoders == DOMAIN enc

ECall(op, e, args, r, log) ==
  /\ enc' = r.encs
  /\ eret' = [NoCall EXCEPT !.op = op, !.t = e, !.args = args, !.val = r.val, !.exc = r.exc,
                            !.log = log]

set_train(e, val) ==
  /\ ERunning
  /\ ECall("set_train", e, <<val>>, set_train_call(enc, e, val), << >>)
  /\ UNCHANGED <<globals, epochs, conf>>

transduce(e, sent) ==
  /\ ERunning
  /\ ECall("transduce", e, <<sent>>, transduce_call(enc, e, sent),
           transduce_call(enc, e, sent).calls)
  /\ UNCHANGED <<globals, epochs, conf>>

calc_reinforce_loss(e, reward) ==
  /\ ERunning
  /\ ECall("calc_reinforce_loss", e, <<reward>>, calc_reinforce_loss_call(enc, e, reward), << >>)
  /\ UNCHANGED <<globals, epochs, conf>>

new_epoch(e) ==
  /\ ERunning
  /\ enc[e].kind = "SegmentingEncoder"
  /\ enc[e].ctr < MaxCtr
  /\ ECall("new_epoch", e, << >>, EReturned([enc EXCEPT ![e] = new_epoch_call(@)], None),
           <<[text |-> "Now lambda:", value |-> new_epoch_call(enc[e]).lmbd_val]>>)
  /\ epochs' = [epochs EXCEPT ![e] = @ + 1]
  /\ UNCHANGED <<globals, conf>>

(* ------------------------------------------------------- a model's encoders *)
\* The lambda schedules configured, in units of 1e-3.
Lmbds ==
  {[start |-> 1, min |-> 0, max |-> 20],
   [start |-> -5, min |-> -7, max |-> 100],
   [start |-> 5, min |-> 5, max |-> 0]}
GlobalDefaults == {[default_layer_dim |-> 512, dropout |-> 5], [default_layer_dim |-> 256, dropout |-> 0]}
DropoutOptions == {None, Opt(0), Opt(3)}
DimOptions == {None, Opt(128)}
\* The options as given together: nothing, a dropout of 0.0 alone, everything.
OptionsGiven ==
  {g \in [dim : DimOptions, dropout : DropoutOptions] :
     (g.dim = None) <=> (g.dropout \in {None, Opt(0)})}
Sents == {<<[f |-> "sent", by |-> 0]>>}
Rewards == {1}

\* The encoders of one model: four builder-backed encoders, an IdentityEncoder, a
\* SegmentingEncoder over it, ModularEncoders over them, one nested in another
\* and one empty, and an object of each abstract class.
EncodersOf(c, lmbd, defaults) ==
  <<LSTMEncoderInit(c[1].input_dim, 1, c[1].hidden_dim, c[1].dropout, TRUE, defaults),
    ResidualLSTMEncoderInit(512, 2, c[2].hidden_dim, FALSE, c[2].dropout, TRUE, defaults),
    PyramidalLSTMEncoderInit(512, 1, c[3].hidden_dim, "skip", 2, c[3].dropout, defaults),
    ConvBiRNNBuilderInit(40, 1, c[4].hidden_dim, c[4].dropout, defaults),
    [kind |-> "IdentityEncoder"],
    SegmentingEncoderInit(5, "segment_transducer", lmbd),
    ModularEncoderInit(512, <<1, 2>>),
    ModularEncoderInit(512, <<7, 5, 6, 3>>),
    ModularEncoderInit(512, << >>),
    [kind |-> "Encoder"],
    [kind |-> "BuilderEncoder"]>>

\* The options of the four builder-backed encoders that fall back to a
\* model-wide default when they are not given; the other encoders have none.
OptionsOf(dim, dropout) ==
  <<[input_dim |-> dim, hidden_dim |-> dim, dropout |-> dropout],
    [hidden_dim |-> Opt(128), dropout |-> None],
    [hidden_dim |-> None, dropout |-> Opt(3)],
    [hidden_dim |-> dim, dropout |-> dropout]>>
  \o [i \in 1..7 |-> << >>]

EncInit ==
  /\ \E defaults \in GlobalDefaults, given \in OptionsGiven, lmbd \in Lmbds :
       /\ globals = defaults
       /\ conf = OptionsOf(given.dim, given.dropout)
       /\ enc = EncodersOf(OptionsOf(given.dim, given.dropout), lmbd, defaults)
  /\ eret = NoCall
  /\ epochs = [e \in 1..11 |-> 0]
  /\ registry = << >>
  /\ trk = << >>
  /\ now = 0
  /\ ret = NoCall
  /\ fed = << >>
  /\ pc = "free"

EncNext ==
  \/ \E e \in Encoders, val \in BOOLEAN : set_train(e, val) /\ UNCHANGED <<trackerVars, pc>>
  \/ \E e \in Encoders, sent \in Sents : transduce(e, sent) /\ UNCHANGED <<trackerVars, pc>>
  \/ \E e \in Encoders, reward \in Rewards :
       calc_reinforce_loss(e, reward) /\ UNCHANGED <<trackerVars, pc>>
  \/ \E e \in Encoders : new_epoch(e) /\ UNCHANGED <<trackerVars, pc>>

EncSpec == EncInit /\ [][EncNext]_vars

(* ------------------------------------------------------------ the claims *)

\* C1 as stated, for the calls that return: inside an epoch report_train_process()
\* returns true if and only if 1000 sentences have been fed since the last fired
\* train report (or since on_new_epoch), or sent_num = total_train_sent.
C1_FiresOnSentencesSinceLastReport ==
  [][\A t \in Trackers :
       (report_train_process(t) /\ InEpoch(trk[t]) /\ ret'.exc = "") =>
         ((ret'.val = "True") <=>
            (fed[t].report >= 1000 \/ trk[t].sent_num = trk[t].total_train_sent))]_vars

\* C1, amended: inside an epoch report_train_process() takes its report branch if
\* and only if sent_num_not_report_train (the sentences fed since the last fired
\* report plus the remainder below 1000 that report carried over) is at least
\* 1000, or sent_num = total_train_sent.  In the branch it logs a train report and
\* returns true, or raises ZeroDivisionError with nothing logged; in every other
\* state it logs nothing, returns None and changes no field of the tracker.
C1_FiresOnCounter ==
  [][\A t \in Trackers :
       (report_train_process(t) /\ InEpoch(trk[t])) =>
         IF trk[t].sent_num_not_report_train >= 1000
            \/ trk[t].sent_num = trk[t].total_train_sent
         THEN \/ /\ ret'.exc = "" /\ ret'.val = "True"
                 /\ ret'.log # << >> /\ ret'.log[1].kind = "train"
              \/ ret'.exc = "ZeroDivisionError" /\ ret'.val = "None" /\ ret'.log = << >>
         ELSE /\ ret'.exc = "" /\ ret'.val = "None" /\ ret'.log = << >>
              /\ trk'[t] = trk[t]]_vars

\* A report fired on the counter although fewer than 1000 sentences were fed since
\* the report before it: the remainder it left is carried.
C1_Witness ==
  /\ ret.op = "report_train_process" /\ ret.val = "True"
  /\ trk[ret.t].sent_num = 2000
  /\ trk[ret.t].total_train_sent = 3000
  /\ trk[ret.t].sent_num_not_report_train = 0
  /\ trk[ret.t].last_report_words > 0
  /\ fed[ret.t].epoch = 2000

\* C2: a report_train_process() that takes its report branch sets
\* sent_num_not_report_train to its previous value modulo 1000, and after any call
\* of it, fired or not, the counter is below 1000.
C2_CounterBelowPeriod ==
  [][\A t \in Trackers :
       report_train_process(t) =>
         /\ trk'[t].sent_num_not_report_train < 1000
         /\ (\/ trk[t].sent_num_not_report_train >= 1000
             \/ (InEpoch(trk[t]) /\ trk[t].sent_num = trk[t].total_train_sent)) =>
              trk'[t].sent_num_not_report_train = trk[t].sent_num_not_report_train % 1000]_vars

\* A report fired with 1500 sentences on the counter and left 500.
C2_Witness ==
  /\ ret.op = "report_train_process" /\ ret.val = "True"
  /\ trk[ret.t].sent_num_not_report_train = 500
  /\ trk[ret.t].sent_num = 1500

\* C3: the words/sec of a report never raises on a zero clock delta.
C3_NoZeroDivisionOnSameInstant ==
  ~(ret.exc = "ZeroDivisionError" /\ ret.line \in {97, 141})

\* C6: on_new_epoch for the tracker's own regimen empties epoch_loss, zeroes
\* epoch_words, sent_num, both since-last-report counters and last_report_words,
\* adds one to epoch_num and sets total_train_sent to num_sents.
C6_NewEpochResets ==
  [][\A r \in Regimens, n \in NumSents :
       on_new_epoch(r, n) =>
         \A t \in Trackers :
           trk[t].training_regimen = r =>
             /\ trk'[t].epoch_loss = LossBuilder
             /\ trk'[t].epoch_words = 0
             /\ trk'[t].sent_num = 0
             /\ trk'[t].sent_num_not_report_train = 0
             /\ trk'[t].sent_num_not_report_dev = 0
             /\ trk'[t].last_report_words = 0
             /\ trk'[t].epoch_num = trk[t].epoch_num + 1
             /\ HasAttr(trk'[t], "total_train_sent")
             /\ trk'[t].total_train_sent = n]_vars

\* A second epoch has started, over 500 sentences, after a first one over 3000
\* that reported at its 1500th sentence.
C6_Witness ==
  /\ ret.op = "on_new_epoch" /\ ret.args = <<"r1", 500>>
  /\ trk[1].epoch_num = 2
  /\ trk[1].total_train_sent = 500
  /\ trk[1].fractional_epoch = <<1500, 3000>>
  /\ trk[1].sent_num = 0

\* C4, inside an epoch and with a dev score set: report_dev_and_check_model returns
\* true if and only if dev_score is strictly better than best_dev_score in the
\* score's own ordering (any score is better than none), and best_dev_score
\* becomes dev_score exactly when true is returned, else stays.
C4_SaveIffStrictlyBetter ==
  [][\A t \in Trackers :
       (report_dev_and_check_model(t, "model.out") /\ InEpoch(trk[t])
          /\ trk[t].dev_score # None) =>
         LET better ==
               \/ trk[t].best_dev_score = None
               \/ trk[t].dev_score.kind = "higher"
                    /\ trk[t].dev_score.value > trk[t].best_dev_score.value
               \/ trk[t].dev_score.kind = "lower"
                    /\ trk[t].dev_score.value < trk[t].best_dev_score.value
         IN /\ (ret'.val = "True") <=> better
            /\ trk'[t].best_dev_score =
                 (IF ret'.val = "True" THEN trk[t].dev_score ELSE trk[t].best_dev_score)]_vars

\* C5: with eval_dev_every = 0, each should_report_dev() of the loop says yes if and
\* only if all total_train_sent sentences of the epoch have been fed; it never
\* says yes twice in an epoch, and has said yes once when the epoch was fed
\* without an exception.
C5_DevOnceAtEpochEnd ==
  /\ [][(LoopAsk /\ trk[1].eval_dev_every = 0) =>
          ((ret'.val = "True") <=> (fed[1].epoch = trk[1].total_train_sent))]_vars
  /\ [](trk[1].eval_dev_every = 0 =>
          /\ fed[1].yes <= 1
          /\ (pc = "epoch" /\ trk[1].epoch_num > 0) => fed[1].yes = 1)

\* The loop fed 3000 sentences in more than one batch, asked after each, was told
\* yes at the last one, and reported on the dev set.
C5_Witness ==
  /\ trk[1].eval_dev_every = 0
  /\ pc = "epoch" /\ ret.op = "report_dev_and_check_model" /\ ret.exc = ""
  /\ trk[1].total_train_sent = 3000
  /\ fed[1].epoch = 3000
  /\ fed[1].yes = 1

\* C7: an on_new_epoch event of a regimen leaves every field of the trackers that
\* regimen does not own as it was, and the trackers end in the same state
\* whatever the order in which their handlers are invoked.
C7_OtherRegimenIgnored ==
  [][\A r \in BusRegimens, n \in BusNumSents :
       on_new_epoch(r, n) =>
         /\ \A t \in Trackers : trk[t].training_regimen # r => trk'[t] = trk[t]
         /\ \A order \in HandlerOrders : FireOnNewEpoch(order, trk, r, n, now) = trk']_vars

\* Three trackers; regimen r2 started its second epoch while the tracker of r1
\* was in the middle of its first.
C7_Witness ==
  /\ Len(registry) = 3
  /\ ret.op = "on_new_epoch" /\ ret.args[1] = "r2"
  /\ trk[1].epoch_num = 2 /\ trk[3].epoch_num = 2
  /\ trk[2].epoch_num = 1 /\ trk[2].sent_num = 500 /\ trk[2].total_train_sent = 1000

(* ------------------------------------------------- claims on the encoders *)
Segmenters == {e \in Encoders : enc[e].kind = "SegmentingEncoder"}

\* clamp(x, lo, hi) with the upper bound applied first and the lower bound last.
Clamp(x, lo, hi) ==
  LET u == IF x > hi THEN hi ELSE x IN IF u < lo THEN lo ELSE u

\* The schedule of the claims, in units of 1e-3: 1e-3 * (2^N - 10).
Scheduled(N) == 2 ^ N - 10

\* C8 as stated: after exactly N calls to new_epoch(), N = 0 included, the lambda
\* of a SegmentingEncoder is clamp(1e-3 * (2^N - 10), min, max), whatever other
\* calls came in between.  Stated here for the schedules with min <= max.
C8_LambdaIsClampedScheduleFromConstruction ==
  \A e \in Segmenters :
    enc[e].lmbd.min <= enc[e].lmbd.max =>
      enc[e].lmbd_val = Clamp(Scheduled(epochs[e]), enc[e].lmbd.min, enc[e].lmbd.max)

\* C8, amended: after exactly N >= 1 calls to new_epoch() the lambda is the
\* schedule value 1e-3 * (2^N - 10) cut to max and then raised to min, whatever
\* set_train, transduce and calc_reinforce_loss calls came in between; before the
\* first call it is the configured start; the counter is the number of calls.
C8_LambdaIsClampedScheduleAfterFirstEpoch ==
  \A e \in Segmenters :
    /\ enc[e].ctr = epochs[e]
    /\ epochs[e] >= 1 =>
         enc[e].lmbd_val = Clamp(Scheduled(epochs[e]), enc[e].lmbd.min, enc[e].lmbd.max)
    /\ epochs[e] = 0 => enc[e].lmbd_val = enc[e].lmbd.start

\* Four epochs on the schedule [0, 0.020] started at 0.001, with set_train(true)
\* in between: the lambda is the unclamped 0.006.
C8_Witness ==
  /\ eret.op = "new_epoch" /\ eret.t = 6
  /\ enc[6].lmbd = [start |-> 1, min |-> 0, max |-> 20]
  /\ epochs[6] = 4 /\ enc[6].lmbd_val = 6
  /\ enc[6].builder.train = "True"

\* C9 as stated: after any call to new_epoch() the lambda lies in [min, max], for
\* every counter value and every configured min and max.
C9_LambdaWithinMinMax ==
  \A e \in Segmenters :
    epochs[e] >= 1 => enc[e].lmbd.min <= enc[e].lmbd_val /\ enc[e].lmbd_val <= enc[e].lmbd.max

\* C9, amended: after any call to new_epoch() the lambda lies in [min, max] when
\* the schedule is configured with min <= max, and is min when min > max.
C9_LambdaWithinMinMaxWhenOrdered ==
  \A e \in Segmenters :
    epochs[e] >= 1 =>
      IF enc[e].lmbd.min <= enc[e].lmbd.max
      THEN enc[e].lmbd.min <= enc[e].lmbd_val /\ enc[e].lmbd_val <= enc[e].lmbd.max
      ELSE enc[e].lmbd_val = enc[e].lmbd.min

\* The fifth epoch on the schedule [0, 0.020]: 0.022 is cut to the max.
C9_Witness ==
  /\ eret.op = "new_epoch" /\ eret.t = 6
  /\ enc[6].lmbd = [start |-> 1, min |-> 0, max |-> 20]
  /\ epochs[6] = 5 /\ enc[6].lmbd_val = 20

\* The encoders an encoder owns: itself and the modules below it, at any depth.
RECURSIVE Owned(_)
Owned(e) ==
  {e} \cup (IF enc[e].kind = "ModularEncoder"
            THEN UNION {Owned(enc[e].modules[i]) : i \in DOMAIN enc[e].modules}
            ELSE {})

\* C10: after set_train(false) on an encoder, every builder it owns, directly or
\* through nested modules, has dropout 0, and the builder of every
\* SegmentingEncoder it owns was last told set_train(false), whatever set_train
\* calls came before.
C10_EvalModeTurnsDropoutOff ==
  (eret.op = "set_train" /\ eret.exc = "" /\ eret.args = <<FALSE>>) =>
    \A d \in Owned(eret.t) :
      /\ enc[d].kind \in BuilderKinds => enc[d].builder.dropout = 0
      /\ enc[d].kind = "SegmentingEncoder" => enc[d].builder.train = "False"

\* set_train(false) on the nested ModularEncoder, whose encoders are configured
\* with dropout 0.5 and 0.3, while the ConvBiRNNBuilder outside it is still in
\* training mode with its dropout on.
C10_Witness ==
  /\ eret.op = "set_train" /\ eret.t = 8 /\ eret.exc = "" /\ eret.args = <<FALSE>>
  /\ enc[1].dropout = 5 /\ enc[3].dropout = 3
  /\ \A d \in {1, 2, 3} : enc[d].builder.dropout = 0
  /\ enc[6].builder.train = "False"
  /\ enc[4].builder.dropout = 5

\* A recorded transduce call c on a ModularEncoder made one transduce call per
\* module, in list order, each on the value the previous one returned (the first
\* on c's own argument), and returned what the last one returned (its own
\* argument when it has no modules).
InSequence(c) ==
  LET modules == enc[c.t].modules
      d == c.sub
  IN /\ Len(d) = Len(modules)
     /\ \A i \in DOMAIN d :
          /\ d[i].t = modules[i]
          /\ d[i].sent = (IF i = 1 THEN c.sent ELSE d[i - 1].val)
     /\ c.val = (IF modules = << >> THEN c.sent ELSE d[Len(d)].val)

\* C11: ModularEncoder.transduce(x) calls each module's transduce exactly once, in
\* list order, each on the output of the one before (x for the first), and
\* returns the last output; with no modules it returns x unchanged.  The same
\* holds of a ModularEncoder that is itself one of the modules.
C11_ModulesInSequence ==
  (eret.op = "transduce" /\ eret.exc = "" /\ enc[eret.t].kind = "ModularEncoder") =>
    /\ Len(eret.log) = 1 /\ eret.log[1].t = eret.t /\ eret.log[1].sent = eret.args[1]
    /\ eret.log[1].val = eret.val
    /\ InSequence(eret.log[1])
    /\ \A i \in DOMAIN eret.log[1].sub :
         enc[eret.log[1].sub[i].t].kind = "ModularEncoder" => InSequence(eret.log[1].sub[i])

\* transduce on the ModularEncoder over [ModularEncoder [LSTM, ResidualLSTM],
\* Identity, Segmenting, PyramidalLSTM]: the value returned is the input taken
\* through the five encoders in that order.
C11_Witness ==
  /\ eret.op = "transduce" /\ eret.t = 8 /\ eret.exc = ""
  /\ enc[8].modules = <<7, 5, 6, 3>> /\ enc[7].modules = <<1, 2>>
  /\ eret.val = <<[f |-> "sent", by |-> 0],
                  [f |-> "builder.transduce", by |-> 1], [f |-> "expr_list", by |-> 0],
                  [f |-> "builder.transduce", by |-> 2], [f |-> "expr_list", by |-> 0],
                  [f |-> "expr_list", by |-> 0],
                  [f |-> "builder.transduce", by |-> 6], [f |-> "expr_tensor", by |-> 0],
                  [f |-> "builder.transduce", by |-> 3], [f |-> "expr_list", by |-> 0]>>

\* The positions of a batch's target side that hold a word: <<i, 0>> for a bare
\* token, <<i, j>> for the j-th token of sentence i.
WordPositions(trg) ==
  {<<i, 0>> : i \in {k \in DOMAIN trg : IsInt(trg[k]) /\ trg[k].int # ES}}
  \cup UNION {{<<i, j>> : j \in {m \in DOMAIN trg[i].list : trg[i].list[m] # ES}} :
              i \in {k \in DOMAIN trg : ~IsInt(trg[k])}}
NonPaddingWords == [b \in BatchIds |-> Cardinality(WordPositions(BatchData[b].trg))]

\* C12: update_epoch_loss(src, trg, loss) adds the number of sequences in src to
\* sent_num, sent_num_not_report_train and sent_num_not_report_dev, adds the
\* number of target tokens other than ES to epoch_words, adds loss to epoch_loss
\* component by component, and changes nothing else of the tracker (epoch_num,
\* total_train_sent, set or not, and best_dev_score among the rest).
C12_UpdateAddsBatch ==
  [][\A t \in Trackers, b \in BatchIds :
       update_epoch_loss(t, b, BatchLoss[b]) =>
         LET old == trk[t]
             new == trk'[t]
             n == Len(BatchData[b].src)
             rest == DOMAIN old \ {"sent_num", "sent_num_not_report_train",
                                   "sent_num_not_report_dev", "epoch_words", "epoch_loss"}
         IN /\ DOMAIN new = DOMAIN old
            /\ new.sent_num = old.sent_num + n
            /\ new.sent_num_not_report_train = old.sent_num_not_report_train + n
            /\ new.sent_num_not_report_dev = old.sent_num_not_report_dev + n
            /\ new.epoch_words = old.epoch_words + NonPaddingWords[b]
            /\ DOMAIN new.epoch_loss = DOMAIN old.epoch_loss \cup DOMAIN BatchLoss[b]
            /\ \A c \in DOMAIN new.epoch_loss :
                 new.epoch_loss[c] =
                   (IF c \in DOMAIN old.epoch_loss THEN old.epoch_loss[c] ELSE 0)
                   + (IF c \in DOMAIN BatchLoss[b] THEN BatchLoss[b][c] ELSE 0)
            /\ \A f \in rest : new[f] = old[f]
            /\ ret'.exc = ""]_vars

\* The mixed batch of 500 fed after the batch of 1500 in an epoch of 3000: 2000
\* sentences, 3000 + 500 words, and both loss components summed.
C12_Witness ==
  /\ ret.op = "update_epoch_loss" /\ ret.args = <<"b500">>
  /\ trk[1].epoch_num = 1 /\ trk[1].total_train_sent = 3000
  /\ trk[1].sent_num = 2000 /\ trk[1].sent_num_not_report_dev = 2000
  /\ trk[1].epoch_words = 3500
  /\ trk[1].epoch_loss = [mle |-> 5, reinforce |-> 1]

\* C13: when report_train_process() reports, the per-word loss of its line is S/W,
\* S the sum of the losses and W the sum of the word counts of the
\* update_epoch_loss calls since the tracker's last on_new_epoch, whatever was
\* reported before in the epoch.
C13_LossPerWordOverEpoch ==
  \A t \in Trackers :
    (ret.op = "report_train_process" /\ ret.t = t /\ ret.val = "True") =>
      /\ ret.exc = ""
      /\ ret.log[1].kind = "train"
      /\ ret.log[1].loss_per_word = <<fed[t].loss, fed[t].words>>
      /\ fed[t].words > 0

\* The second report of an epoch of 3000 sentences, fed as two batches of 1500:
\* loss 8 over 6000 words, 3000 of the words fed since the first report.
C13_Witness ==
  /\ ret.op = "report_train_process" /\ ret.val = "True"
  /\ trk[1].total_train_sent = 3000 /\ trk[1].sent_num = 3000
  /\ ret.log[1].loss_per_word = <<8, 6000>>
  /\ ret.log[1].words_per_sec = <<3000, 1>>
  /\ fed[1].loss = 8 /\ fed[1].words = 6000

\* The value an encoder ended up with for an option: the dimensions are those
\* its builder was made with, the dropout is the encoder's own attribute.
Effective(e, option) ==
  IF option = "dropout" THEN enc[e].dropout ELSE enc[e].builder[option]

\* C14: in the LSTM, ResidualLSTM, PyramidalLSTM and ConvBiRNN encoders, an option
\* with a model-wide default (input_dim, hidden_dim, dropout) has the configured
\* value whenever it is configured, a dropout of 0.0 included, and the model-wide
\* default only when it is not.
C14_ConfiguredOptionWins ==
  \A e \in DOMAIN conf : \A option \in DOMAIN conf[e] :
    Effective(e, option) =
      (IF conf[e][option] = None
       THEN globals[IF option = "dropout" THEN "dropout" ELSE "default_layer_dim"]
       ELSE conf[e][option].v)

\* C15: set_train on an object of the abstract Encoder or of BuilderEncoder, and
\* transduce on an object of the abstract Encoder, raise NotImplementedError with
\* the receiver's class (and the operation) in its message, and change no encoder.
C15_UnimplementedRaises ==
  [][\A e \in {x \in Encoders : enc[x].kind \in {"Encoder", "BuilderEncoder"}} :
       /\ \A val \in BOOLEAN :
            (eret'.op = "set_train" /\ set_train(e, val)) =>
              /\ eret'.exc = "NotImplementedError"
              /\ eret'.val = <<"Unimplemented set_train for class:", enc[e].kind>>
              /\ enc' = enc
       /\ \A sent \in Sents :
            (eret'.op = "transduce" /\ enc[e].kind = "Encoder" /\ transduce(e, sent)) =>
              /\ eret'.exc = "NotImplementedError"
              /\ eret'.val = <<"Unimplemented transduce for class:", enc[e].kind>>
              /\ enc' = enc]_vars

\* set_train(true) on the BuilderEncoder object, after two epochs of the
\* SegmentingEncoder and with the LSTMEncoder in training mode.
C15_Witness ==
  /\ eret.op = "set_train" /\ eret.t = 11 /\ eret.args = <<TRUE>>
  /\ enc[11].kind = "BuilderEncoder"
  /\ eret.exc = "NotImplementedError"
  /\ epochs[6] = 2 /\ enc[1].builder.dropout = 5

\* The period of the dev reports: eval_dev_every, or total_train_sent when it is 0.
DevPeriod(self) ==
  IF self.eval_dev_every # 0 THEN self.eval_dev_every ELSE self.total_train_sent

\* C16: inside an epoch and with eval_dev_every = P > 0, should_report_dev() says
\* yes if and only if sent_num_not_report_dev >= P or sent_num ==
\* total_train_sent, and changes nothing; and report_dev_and_check_model(),
\* whenever its period is defined, leaves sent_num_not_report_dev at its value
\* modulo the period, strictly below the period, whether or not the rest of the
\* report goes through.
C16_DevCadence ==
  [][\A t \in Trackers :
       /\ (ret'.op = "should_report_dev" /\ InEpoch(trk[t]) /\ trk[t].eval_dev_every > 0
             /\ should_report_dev(t)) =>
            /\ ret'.exc = ""
            /\ (ret'.val = "True") <=>
                 \/ trk[t].sent_num_not_report_dev >= trk[t].eval_dev_every
                 \/ trk[t].sent_num = trk[t].total_train_sent
            /\ ret'.val \in {"True", "False"}
            /\ trk' = trk
       /\ (ret'.op = "report_dev_and_check_model"
             /\ (InEpoch(trk[t]) \/ trk[t].eval_dev_every # 0)
             /\ report_dev_and_check_model(t, "model.out")) =>
            /\ trk'[t].sent_num_not_report_dev =
                 trk[t].sent_num_not_report_dev % DevPeriod(trk[t])
            /\ trk'[t].sent_num_not_report_dev < DevPeriod(trk[t])
            /\ trk'[t].sent_num_not_report_dev >= 0]_vars

\* A dev report with eval_dev_every = 1000 at the end of the second epoch, of
\* 1000 sentences: the report goes through and the counter is left at 0.
C16_Witness ==
  /\ ret.op = "report_dev_and_check_model" /\ ret.exc = "" /\ ret.val = "True"
  /\ trk[1].eval_dev_every = 1000 /\ trk[1].total_train_sent = 1000
  /\ trk[1].epoch_num = 2
  /\ trk[1].sent_num = 1000 /\ trk[1].sent_num_not_report_dev = 0

\* C17: epoch_num starts at 0, grows by exactly 1 when the tracker handles an
\* on_new_epoch of its own regimen, and is left alone by every other step:
\* update_epoch_loss, the reports, should_report_dev, new_dev, set_dev_score,
\* clear_counters and an on_new_epoch of another regimen.
C17_EpochNumCountsOwnEpochs ==
  /\ \A t \in Trackers : trk[t].epoch_num = 0
  /\ [][\A t \in Trackers :
          trk'[t].epoch_num =
            trk[t].epoch_num
            + (IF \E n \in BusNumSents : on_new_epoch(trk[t].training_regimen, n)
               THEN 1 ELSE 0)]_vars

\* clear_counters in the second epoch, after a dev report that stored a best score.
C17_Witness ==
  /\ ret.op = "clear_counters"
  /\ trk[1].epoch_num = 2 /\ trk[1].sent_num = 0
  /\ trk[1].best_dev_score # None
  /\ fed[1].epoch = 500

\* C18: best_dev_score is the best, in the scores' own ordering, of the dev scores
\* that report_dev_and_check_model has reported in the whole run (none before the
\* first), whatever epochs started and whatever else was called in between.
C18_BestOfReported ==
  \A t \in Trackers : trk[t].best_dev_score = fed[t].best

\* C18, step by step: only report_dev_and_check_model changes best_dev_score, and
\* never for a score that is not strictly better.
C18_BestPersists ==
  [][\A t \in Trackers :
       trk'[t].best_dev_score # trk[t].best_dev_score =>
         /\ ret'.op = "report_dev_and_check_model" /\ ret'.exc = ""
         /\ report_dev_and_check_model(t, "model.out")
         /\ trk'[t].best_dev_score = trk[t].dev_score
         /\ BestReported(trk[t].best_dev_score, trk[t].dev_score) = trk[t].dev_score]_vars

\* C18: best_dev_score persists over the whole run and tracks the best reported
\* dev score: it always equals the best of the scores reported so far, and it
\* changes only in a report_dev_and_check_model that found a strictly better one.
C18_BestDevScoreTracksReports ==
  /\ []C18_BestOfReported
  /\ C18_BestPersists

\* The second epoch has started and a dev score of 1 was just reported, after a
\* score of 2 was reported in the first epoch: the best stays 2.
C18_Witness ==
  /\ ret.op = "report_dev_and_check_model" /\ ret.exc = "" /\ ret.val = "False"
  /\ trk[1].epoch_num = 2
  /\ trk[1].dev_score = [kind |-> "higher", value |-> 1]
  /\ trk[1].best_dev_score = [kind |-> "higher", value |-> 2]

\* C19: in every state, 0 <= sent_num_not_report_train <= sent_num and
\* 0 <= sent_num_not_report_dev <= sent_num, whatever the order of on_new_epoch,
\* update_epoch_loss, the two reports and clear_counters.
C19_CountersWithinSentNum ==
  \A t \in Trackers :
    /\ 0 <= trk[t].sent_num_not_report_train
    /\ trk[t].sent_num_not_report_train <= trk[t].sent_num
    /\ 0 <= trk[t].sent_num_not_report_dev
    /\ trk[t].sent_num_not_report_dev <= trk[t].sent_num

\* The end of an epoch of 1000 sentences, after the train report and then the dev
\* report of the epoch (eval_dev_every = 0): 1000 sentences counted, none since
\* either report.
C19_Witness ==
  /\ ret.op = "report_dev_and_check_model" /\ ret.exc = ""
  /\ trk[1].eval_dev_every = 0 /\ trk[1].total_train_sent = 1000
  /\ trk[1].sent_num = 1000
  /\ trk[1].sent_num_not_report_train = 0
  /\ trk[1].sent_num_not_report_dev = 0

\* C20: report_train_process(), should_report_dev() and
\* report_dev_and_check_model() never fail for lack of an epoch size:
\* total_train_sent has a value wherever they read it (lines 88, 92, 124, 126,
\* 134, 136), on a tracker that has handled no on_new_epoch of its regimen too.
C20_EpochSizeAlwaysDefined ==
  ~(/\ ret.op \in {"report_train_process", "should_report_dev", "report_dev_and_check_model"}
    /\ ret.exc = "AttributeError"
    /\ ret.line \in {88, 92, 124, 126, 134, 136})

====
